---- MODULE Spec2Model ----
(***************************************************************************)
(* Model of the ingestion / parsing / dispatch pipeline of BeatSaberQuery  *)
(* (src/__main__.py).                                                      *)
(*                                                                         *)
(* Python values are encoded as follows:                                   *)
(*   - a str is a sequence of one-character strings;                       *)
(*   - an Optional value (None, or a dict key that may be missing) is a    *)
(*     sequence of length 0 (None / missing) or 1 (<<v>>);                 *)
(*   - an identity (user id, group id, qq) is an integer; the broadcast    *)
(*     marker 'all' of an at-segment is the integer ALL.                   *)
(* The two asyncio tasks are interleaved only at their suspension points   *)
(* (await ws.recv(), await queue.get() on an empty queue); the signal      *)
(* handler may run between any two steps.                                  *)
(***************************************************************************)
EXTENDS Integers, Sequences, FiniteSets, TLC

VARIABLES
    available_commands, \* BeatSaberQuery.available_commands
    router,             \* BeatSaberQuery.router: command name -> wrapped handler
    bindings,           \* module-level bindings: the senders that have a bound account
    task_queue,         \* BeatSaberQuery._task_queue
    cancelled,          \* BeatSaberQuery._cancelled
    execpc,             \* position of the module-level script / exec()
    ppc,                \* position of message_poller
    hpc,                \* position of message_handler
    msg,                \* message_poller's local: the frame just received
    task,               \* message_handler's local: the Command just dequeued
    outbox,             \* the requests.post calls issued by reply(), in order
    enqueued,           \* history: every Command passed to enqueue(), in order
    accepted,           \* history: the frame each enqueued Command was built from
    dispatched,         \* history: every Command passed to query(), in order
    calls,              \* history: the stages message_poller ran on the last frame
    last,               \* history: the last completed dispatch
    late,               \* history: what happened since the flag was set
    causes,             \* history: for each request of outbox, the index in
                        \* dispatched of the Command whose dispatch posted it
    arg,                \* input of the function under test (function specifications)
    ret                 \* its result

vars == <<available_commands, router, bindings, task_queue, cancelled, execpc,
          ppc, hpc, msg, task, outbox, enqueued, accepted, dispatched, calls,
          last, late, causes, arg, ret>>

pipeline == <<bindings, task_queue, cancelled, execpc, ppc, hpc, msg, task,
              outbox, enqueued, accepted, dispatched, calls, last, late, causes>>

(***************************************************************************)
(* Bounds of the model.                                                    *)
(***************************************************************************)
MaxCmds == 3        \* Commands enqueued in one run of the pipeline
MaxTextLen == 5     \* characters of a text given to parse()
MaxSegs == 3        \* segments of a message given to translate()

(***************************************************************************)
(* Python values.                                                          *)
(***************************************************************************)
None == <<>>
Some(v) == <<v>>
IsNone(o) == Len(o) = 0
Val(o) == o[1]

\* bool(x) of an Optional[int]: None and 0 are falsy.
TruthyInt(o) == Len(o) = 1 /\ o[1] # 0
\* bool(x) of an Optional[str]: None and '' are falsy.
TruthyStr(o) == Len(o) = 1 /\ o[1] # ""

\* str.strip() strips these; ' ' is also the separator of split(' ').
Whitespace == {" ", "\t", "\n"}

PREFIX == <<"\\">>

RECURSIVE SplitSpace(_)
\* text.split(' '): the maximal runs between single spaces, empty runs kept.
SplitSpace(text) ==
    IF \A i \in 1..Len(text) : text[i] # " "
    THEN <<text>>
    ELSE LET i == CHOOSE k \in 1..Len(text) :
                      text[k] = " " /\ \A j \in 1..(k - 1) : text[j] # " "
         IN <<SubSeq(text, 1, i - 1)>> \o SplitSpace(SubSeq(text, i + 1, Len(text)))

RECURSIVE LStrip(_)
LStrip(s) == IF Len(s) > 0 /\ s[1] \in Whitespace THEN LStrip(Tail(s)) ELSE s

RECURSIVE RStrip(_)
RStrip(s) ==
    IF Len(s) > 0 /\ s[Len(s)] \in Whitespace
    THEN RStrip(SubSeq(s, 1, Len(s) - 1))
    ELSE s

\* str.strip
Strip(s) == RStrip(LStrip(s))

\* filter(lambda e: e, tokens)
NonEmpty(tokens) == SelectSeq(tokens, LAMBDA e : Len(e) > 0)

\* list(map(str.strip, tokens))
MapStrip(tokens) == [i \in 1..Len(tokens) |-> Strip(tokens[i])]

\* str.startswith
StartsWith(s, p) == Len(s) >= Len(p) /\ SubSeq(s, 1, Len(p)) = p

\* The argument vector of parse(): filter first, strip afterwards.
Argv(text) == MapStrip(NonEmpty(SplitSpace(text)))

\* Mutant of parse: the command name is not looked up in available_commands.
parseAnyName(text, commands) ==
    LET argv == Argv(text) IN
    IF Len(argv) = 0 THEN None
    ELSE IF ~StartsWith(argv[1], PREFIX) THEN None
    ELSE Some([argv EXCEPT ![1] = SubSeq(argv[1], Len(PREFIX) + 1, Len(argv[1]))])

\* Mutant of parse: token 0 is cut without checking that it has the prefix.
parseAnyPrefix(text, commands) ==
    LET argv == Argv(text) IN
    IF Len(argv) = 0 THEN None
    ELSE LET cmd == SubSeq(argv[1], Len(PREFIX) + 1, Len(argv[1])) IN
         IF cmd \notin commands THEN None
         ELSE Some([argv EXCEPT ![1] = cmd])

\* BeatSaberQuery.parse: None, or Some(argv) with the prefix cut from argv[0].
parse(text, commands) ==
    LET argv == Argv(text) IN
    IF Len(argv) = 0 THEN None
    ELSE IF ~StartsWith(argv[1], PREFIX) THEN None
    ELSE LET cmd == SubSeq(argv[1], Len(PREFIX) + 1, Len(argv[1])) IN
         IF cmd \notin commands THEN None
         ELSE Some([argv EXCEPT ![1] = cmd])

(***************************************************************************)
(* Configuration done by the module-level script before exec().            *)
(***************************************************************************)
GroupEnabledId == 743972515
PrivateEnabledId == 1745096608
group_enabled == {GroupEnabledId}
private_enabled == {PrivateEnabledId}

\* The value 'all' of an at-segment's data.qq (identities are positive).
ALL == -1

Help == <<"h", "e", "l", "p">>
Me == <<"m", "e">>
Rkup == <<"r", "k", "u", "p">>

\* The registrations the script makes: @bs.command(name) applied to a function.
Registrations ==
    { <<Help, "display_help">>, <<Me, "query_me">>, <<Rkup, "query_rank_up">> }

(***************************************************************************)
(* Frames: what json.loads makes of the data of one ws.recv().             *)
(*   kind "invalid": json.loads raises; kind "array": valid JSON that is   *)
(*   not an object; kind "object": a dict whose keys message_type,         *)
(*   user_id, group_id and message may each be missing (None).             *)
(***************************************************************************)
TextSeg(s) == [type |-> "text", text |-> s, qq |-> 0]
AtSeg(q) == [type |-> "at", text |-> <<>>, qq |-> q]
ImageSeg == [type |-> "image", text |-> <<>>, qq |-> 0]

Obj(mt, uid, gid, m) ==
    [kind |-> "object", message_type |-> mt, user_id |-> uid, group_id |-> gid,
     message |-> m]
Invalid == [kind |-> "invalid", message_type |-> None, user_id |-> None,
            group_id |-> None, message |-> None]
Array == [kind |-> "array", message_type |-> None, user_id |-> None,
          group_id |-> None, message |-> None]

RawCommand(sender, command, targets) ==
    [sender |-> sender, command |-> command, targets |-> targets]

Command(group, sender, command, targets) ==
    [group |-> group, sender |-> sender, command |-> command, targets |-> targets]

RECURSIVE JoinSegmentsNoMention(_)
\* Mutant of JoinSegments: a mention segment contributes nothing.
JoinSegmentsNoMention(m) ==
    IF Len(m) = 0 THEN <<>>
    ELSE (IF m[1].type = "text" THEN m[1].text ELSE <<>>)
             \o JoinSegmentsNoMention(Tail(m))

RECURSIVE JoinSegments(_)
\* ''.join(map(lambda e: e['data']['text'] if e['type'] == 'text' else ' ', m))
JoinSegments(m) ==
    IF Len(m) = 0 THEN <<>>
    ELSE (IF m[1].type = "text" THEN m[1].text ELSE <<" ">>) \o JoinSegments(Tail(m))

\* The allow-list of segment types of translate().
allowd_type == {"at", "text"}

\* translate() raises KeyError: msg['message'] is read first; msg['user_id'] is
\* read only when every segment type is allowed.
translateRaises(m) ==
    \/ IsNone(m.message)
    \/ /\ \A i \in 1..Len(Val(m.message)) : Val(m.message)[i].type \in allowd_type
       /\ IsNone(m.user_id)

\* BeatSaberQuery.translate, where it does not raise: None or Some(RawCommand).
translate(m) ==
    LET segs == Val(m.message) IN
    IF \E i \in 1..Len(segs) : segs[i].type \notin allowd_type THEN None
    ELSE Some(RawCommand(
            Val(m.user_id),
            JoinSegments(segs),
            { segs[i].qq : i \in { k \in 1..Len(segs) :
                                     segs[k].type = "at" /\ segs[k].qq # ALL } }))

\* The gate of message_poller raises: msg.get on a non-dict (AttributeError), or
\* the identity of the frame's scope is missing (KeyError).
gateRaises(m) ==
    \/ m.kind = "array"
    \/ m.message_type = Some("private") /\ IsNone(m.user_id)
    \/ m.message_type = Some("group") /\ IsNone(m.group_id)

\* Mutant of enabled: the allow-lists are not consulted.
enabledAlways(m) == TRUE

\* The value of `enabled` after the match statement of message_poller.
enabled(m) ==
    IF m.message_type = Some("private") THEN Val(m.user_id) \in private_enabled
    ELSE IF m.message_type = Some("group") THEN Val(m.group_id) \in group_enabled
    ELSE FALSE

(***************************************************************************)
(* Reply Dispatcher.                                                       *)
(***************************************************************************)
GroupRequest(group, private, text) ==
    [api |-> "/send_group_msg", id |-> group,
     message |-> [at |-> private, text |-> text]]
PrivateRequest(private, text) ==
    [api |-> "/send_private_msg", id |-> private,
     message |-> [at |-> None, text |-> text]]

\* BeatSaberQuery.reply(msg, group=group, private=private): the requests it
\* posts, and whether it raises (api is unbound when neither branch is taken).
reply(text, group, private) ==
    IF TruthyInt(group)
    THEN [raised |-> FALSE, posts |-> <<GroupRequest(Val(group), private, text)>>]
    ELSE IF TruthyInt(private)
    THEN [raised |-> FALSE, posts |-> <<PrivateRequest(Val(private), text)>>]
    ELSE [raised |-> TRUE, posts |-> <<>>]

\* The wrapper that command() puts around a handler, applied to the handler's
\* return value r (an Optional[str]).
wrapper(r, sender, group) ==
    IF TruthyStr(r) /\ (TruthyInt(sender) \/ TruthyInt(group))
    THEN reply(Val(r), group, sender)
    ELSE [raised |-> FALSE, posts |-> <<>>]

(***************************************************************************)
(* The registered handlers.  The third-party API is external: every        *)
(* response it can give is a nondeterministic choice, and its calls are    *)
(* taken to return.  An outcome is the handler's return value (or that it  *)
(* raised) and the bindings it leaves.                                     *)
(***************************************************************************)
Returned(r, b) == [raised |-> FALSE, reply |-> r, bindings |-> b]
Raised(b) == [raised |-> TRUE, reply |-> None, bindings |-> b]

display_help(args, sender, b, commands) ==
    { Returned(IF commands \cap {Help, Me, Rkup} = {} THEN None ELSE Some("help"), b) }

query_me(args, sender, b) ==
    IF Len(args) = 0
    THEN IF sender \notin b
         THEN { Returned(Some("not bound"), b) }
         ELSE { Raised(b) }                       \* args[0] of an empty tuple
    ELSE { Returned(Some("lookup failed"), b),
           Returned(Some("profile"), b \cup {sender}) }

query_rank_up(args, sender, b) ==
    IF sender \notin b
    THEN { Returned(Some("not bound"), b) }
    ELSE { Returned(Some("rank info"), b),        \* one of the early returns
           Returned(None, b),                     \* falls off the end
           Raised(b) }                            \* float('') / index out of range

Handler(func, args, sender, b, commands) ==
    IF func = "display_help" THEN display_help(args, sender, b, commands)
    ELSE IF func = "query_me" THEN query_me(args, sender, b)
    ELSE query_rank_up(args, sender, b)

\* BeatSaberQuery.query(cmd): every outcome of looking the handler up and
\* calling it through its wrapper.
query(cmd, rt, b, commands) ==
    IF cmd.command[1] \notin DOMAIN rt
    THEN { [raised |-> TRUE, reply |-> None, posts |-> <<>>, bindings |-> b] }
    ELSE { LET w == IF o.raised THEN [raised |-> TRUE, posts |-> <<>>]
                    ELSE wrapper(o.reply, Some(cmd.sender), cmd.group)
           IN [raised |-> w.raised, reply |-> o.reply, posts |-> w.posts,
               bindings |-> o.bindings]
           : o \in Handler(rt[cmd.command[1]], Tail(cmd.command), cmd.sender, b,
                           commands) }

(***************************************************************************)
(* The frames the gateway delivers in the pipeline specification.          *)
(***************************************************************************)
OtherUser == 2
OtherGroup == 5
MentionedUser == 3

HelpText == PREFIX \o Help
MeText == PREFIX \o Me
MeArgText == PREFIX \o Me \o <<" ", "7">>
RkupText == PREFIX \o Rkup
HelloText == <<"h", "i">>
NopeText == PREFIX \o <<"n", "o">>

Group == Some("group")
Private == Some("private")

AcceptableFrames ==
    { Obj(Group, Some(OtherUser), Some(GroupEnabledId), Some(<<TextSeg(HelpText)>>)),
      Obj(Private, Some(PrivateEnabledId), None,
          Some(<<AtSeg(MentionedUser), TextSeg(MeArgText)>>)),
      Obj(Private, Some(PrivateEnabledId), None, Some(<<TextSeg(MeText)>>)),
      Obj(Private, Some(PrivateEnabledId), Some(0), Some(<<TextSeg(HelpText)>>)),
      Obj(Private, Some(PrivateEnabledId), Some(OtherGroup),
          Some(<<TextSeg(RkupText), AtSeg(ALL)>>)) }

DiscardedFrames ==
    { Invalid,
      Obj(Group, Some(OtherUser), Some(GroupEnabledId), Some(<<TextSeg(HelloText)>>)),
      Obj(Group, Some(OtherUser), Some(GroupEnabledId), Some(<<TextSeg(NopeText)>>)),
      Obj(Group, Some(OtherUser), Some(GroupEnabledId),
          Some(<<ImageSeg, TextSeg(HelpText)>>)),
      Obj(Group, Some(PrivateEnabledId), Some(OtherGroup), Some(<<TextSeg(HelpText)>>)),
      Obj(Private, Some(OtherUser), Some(GroupEnabledId), Some(<<TextSeg(HelpText)>>)),
      Obj(Some("guild"), Some(PrivateEnabledId), Some(GroupEnabledId),
          Some(<<TextSeg(HelpText)>>)),
      Obj(None, Some(PrivateEnabledId), Some(GroupEnabledId),
          Some(<<TextSeg(HelpText)>>)) }

FatalFrames ==
    { Array,
      Obj(Private, None, None, Some(<<TextSeg(HelpText)>>)),
      Obj(Group, Some(OtherUser), None, Some(<<TextSeg(HelpText)>>)),
      Obj(Group, None, Some(GroupEnabledId), Some(<<TextSeg(HelpText)>>)),
      Obj(Group, Some(OtherUser), Some(GroupEnabledId), None) }

Frames == AcceptableFrames \cup DiscardedFrames \cup FatalFrames

(***************************************************************************)
(* The pipeline.                                                           *)
(***************************************************************************)
NoRouter == [n \in {} |-> ""]

\* Nothing has happened since the flag was set: where message_handler was when
\* it was set, and the frames received, Commands enqueued and dispatches begun
\* since.
NotLate == [at |-> "", recv |-> 0, enq |-> 0, disp |-> 0]

\* The state after BeatSaberQuery.__init__ and `bindings = {}`, nothing started.
Idle ==
    /\ bindings = {}
    /\ task_queue = <<>>
    /\ cancelled = FALSE
    /\ execpc = "setup"
    /\ ppc = "idle"
    /\ hpc = "idle"
    /\ msg = None
    /\ task = None
    /\ outbox = <<>>
    /\ enqueued = <<>>
    /\ accepted = <<>>
    /\ dispatched = <<>>
    /\ calls = <<>>
    /\ last = None
    /\ late = NotLate
    /\ causes = <<>>

Init ==
    /\ available_commands = {}
    /\ router = NoRouter
    /\ Idle
    /\ arg = None
    /\ ret = None

\* A task occupies the event loop from the moment it is resumed until it
\* suspends or ends: the other task steps only meanwhile.
PollerRunning == ppc \in {"check", "frame"}
\* Mutant of HandlerRunning: a dispatch does not keep the event loop.
HandlerRunningNever == FALSE
HandlerRunning == hpc \in {"check", "dequeue", "query"}

\* asyncio.Queue.put on an unbounded queue: appends, never suspends.
QueuePut(q, t) == Append(q, t)
\* Mutant of QueueGet: the newest item is taken.
QueueGetNewest(q) == [item |-> q[Len(q)], rest |-> SubSeq(q, 1, Len(q) - 1)]

\* asyncio.Queue.get on a non-empty queue.
QueueGet(q) == [item |-> Head(q), rest |-> Tail(q)]

\* @bs.command(subcmd) applied to func.
command(subcmd, func) ==
    /\ execpc = "setup"
    /\ available_commands' = available_commands \cup {subcmd}
    /\ router' = [n \in DOMAIN router \cup {subcmd} |->
                    IF n = subcmd THEN func ELSE router[n]]
    /\ UNCHANGED <<pipeline, arg, ret>>

\* bs.exec(): installs the signal handlers and starts producer and consumer.
exec ==
    /\ execpc = "setup"
    /\ execpc' = "running"
    /\ ppc' = "connecting"
    /\ hpc' = "check"
    /\ UNCHANGED <<available_commands, router, bindings, task_queue, cancelled, msg,
                   task, outbox, enqueued, accepted, dispatched, calls, last, arg, ret,
                   late, causes>>

\* The signal handler installed by exec().
cancel ==
    /\ execpc = "running"
    /\ ~cancelled
    /\ cancelled' = TRUE
    /\ late' = [late EXCEPT !.at = hpc]
    /\ UNCHANGED <<available_commands, router, bindings, task_queue, execpc, ppc, hpc,
                   msg, task, outbox, enqueued, accepted, dispatched, calls, last,
                   arg, ret, causes>>

\* One iteration body of message_poller on the decoded frame f: whether it
\* raises, the stages it ran, and the Command it enqueues (None: frame dropped).
Poll(f, commands) ==
    IF f.kind = "invalid"
    THEN [raised |-> FALSE, calls |-> <<>>, cmd |-> None]
    ELSE IF gateRaises(f)
    THEN [raised |-> TRUE, calls |-> <<>>, cmd |-> None]
    ELSE IF ~enabled(f)
    THEN [raised |-> FALSE, calls |-> <<>>, cmd |-> None]
    ELSE IF translateRaises(f)
    THEN [raised |-> TRUE, calls |-> <<"translate">>, cmd |-> None]
    ELSE IF IsNone(translate(f))
    THEN [raised |-> FALSE, calls |-> <<"translate">>, cmd |-> None]
    ELSE LET raw == Val(translate(f))
             argv == parse(raw.command, commands)
         IN IF IsNone(argv)
            THEN [raised |-> FALSE, calls |-> <<"translate", "parse">>, cmd |-> None]
            ELSE [raised |-> FALSE, calls |-> <<"translate", "parse", "enqueue">>,
                  cmd |-> Some(Command(f.group_id, raw.sender, Val(argv), raw.targets))]

\* async with websockets.connect(...): the connection is established.
PollerConnect ==
    /\ execpc = "running"
    /\ ppc = "connecting"
    /\ ~HandlerRunning
    /\ ppc' = "check"
    /\ UNCHANGED <<available_commands, router, bindings, task_queue, cancelled, execpc,
                   hpc, msg, task, outbox, enqueued, accepted, dispatched, calls, last,
                   arg, ret, late, causes>>

\* websockets.connect raises: message_poller ends with the exception.
PollerConnectFail ==
    /\ execpc = "running"
    /\ ppc = "connecting"
    /\ ~HandlerRunning
    /\ ppc' = "raised"
    /\ UNCHANGED <<available_commands, router, bindings, task_queue, cancelled, execpc,
                   hpc, msg, task, outbox, enqueued, accepted, dispatched, calls, last,
                   arg, ret, late, causes>>

\* Mutant of PollerCheck: the flag is not looked at.
PollerCheckBlind ==
    /\ execpc = "running"
    /\ ppc = "check"
    /\ ppc' = "recv"
    /\ msg' = None
    /\ calls' = <<>>
    /\ UNCHANGED <<available_commands, router, bindings, task_queue, cancelled, execpc,
                   hpc, task, outbox, enqueued, accepted, dispatched, last, arg, ret,
                   late, causes>>

\* while not self._cancelled.is_set(): the top of a Listening iteration.
PollerCheck ==
    /\ execpc = "running"
    /\ ppc = "check"
    /\ ppc' = IF cancelled THEN "done" ELSE "recv"
    /\ msg' = None
    /\ calls' = <<>>
    /\ UNCHANGED <<available_commands, router, bindings, task_queue, cancelled, execpc,
                   hpc, task, outbox, enqueued, accepted, dispatched, last, arg, ret,
                   late, causes>>

\* data = await ws.recv() returns the frame f.
PollerRecv(f) ==
    /\ execpc = "running"
    /\ ppc = "recv"
    /\ ~HandlerRunning
    /\ Len(enqueued) < MaxCmds
    /\ msg' = Some(f)
    /\ ppc' = "frame"
    /\ late' = IF cancelled THEN [late EXCEPT !.recv = @ + 1] ELSE late
    /\ UNCHANGED <<available_commands, router, bindings, task_queue, cancelled, execpc,
                   hpc, task, outbox, enqueued, accepted, dispatched, calls, last,
                   arg, ret, causes>>

\* await ws.recv() raises ConnectionClosed: the connection was terminated.
PollerClosed ==
    /\ execpc = "running"
    /\ ppc = "recv"
    /\ ~HandlerRunning
    /\ ppc' = "raised"
    /\ UNCHANGED <<available_commands, router, bindings, task_queue, cancelled, execpc,
                   hpc, msg, task, outbox, enqueued, accepted, dispatched, calls, last,
                   arg, ret, late, causes>>

\* The rest of the iteration: decode, gate, translate, parse, enqueue.
PollerFrame ==
    /\ execpc = "running"
    /\ ppc = "frame"
    /\ LET r == Poll(Val(msg), available_commands) IN
         /\ calls' = r.calls
         /\ ppc' = IF r.raised THEN "raised" ELSE "check"
         /\ IF IsNone(r.cmd)
            THEN UNCHANGED <<task_queue, enqueued, accepted, late>>
            ELSE /\ task_queue' = QueuePut(task_queue, Val(r.cmd))
                 /\ enqueued' = Append(enqueued, Val(r.cmd))
                 /\ accepted' = Append(accepted, Val(msg))
                 /\ late' = IF cancelled THEN [late EXCEPT !.enq = @ + 1] ELSE late
    /\ UNCHANGED <<available_commands, router, bindings, cancelled, execpc, hpc, msg,
                   task, outbox, dispatched, last, arg, ret, causes>>

\* Mutant of HandlerCheck: the flag is not looked at.
HandlerCheckBlind ==
    /\ execpc = "running"
    /\ hpc = "check"
    /\ hpc' = "dequeue"
    /\ UNCHANGED <<available_commands, router, bindings, task_queue, cancelled, execpc,
                   ppc, msg, task, outbox, enqueued, accepted, dispatched, calls, last,
                   arg, ret, late, causes>>

\* while not self._cancelled.is_set(): the check between two iterations.
HandlerCheck ==
    /\ execpc = "running"
    /\ hpc = "check"
    /\ hpc' = IF cancelled THEN "done" ELSE "dequeue"
    /\ UNCHANGED <<available_commands, router, bindings, task_queue, cancelled, execpc,
                   ppc, msg, task, outbox, enqueued, accepted, dispatched, calls, last,
                   arg, ret, late, causes>>

\* The Command c leaves the queue and is passed to query().
Take ==
    LET g == QueueGet(task_queue) IN
    /\ task_queue' = g.rest
    /\ task' = Some(g.item)
    /\ dispatched' = Append(dispatched, g.item)
    /\ hpc' = "query"
    /\ late' = IF cancelled THEN [late EXCEPT !.disp = @ + 1] ELSE late

\* task = await self.dequeue(): suspends on an empty queue, otherwise returns
\* at once and query(task) is entered.
HandlerDequeue ==
    /\ execpc = "running"
    /\ hpc = "dequeue"
    /\ IF task_queue = <<>>
       THEN /\ hpc' = "waiting"
            /\ UNCHANGED <<task_queue, task, dispatched, late>>
       ELSE Take
    /\ UNCHANGED <<available_commands, router, bindings, cancelled, execpc, ppc, msg,
                   outbox, enqueued, accepted, calls, last, arg, ret, causes>>

\* The suspended dequeue() is resumed by a put.
HandlerWake ==
    /\ execpc = "running"
    /\ hpc = "waiting"
    /\ ~PollerRunning
    /\ task_queue # <<>>
    /\ Take
    /\ UNCHANGED <<available_commands, router, bindings, cancelled, execpc, ppc, msg,
                   outbox, enqueued, accepted, calls, last, arg, ret, causes>>

\* self.query(task) runs to its end: the handler, its wrapper and reply().
HandlerQuery ==
    /\ execpc = "running"
    /\ hpc = "query"
    /\ \E o \in query(Val(task), router, bindings, available_commands) :
         /\ bindings' = o.bindings
         /\ outbox' = outbox \o o.posts
         /\ causes' = causes \o [i \in 1..Len(o.posts) |-> Len(dispatched)]
         /\ last' = Some([cmd |-> Val(task), raised |-> o.raised, reply |-> o.reply,
                          posts |-> o.posts])
         /\ hpc' = IF o.raised THEN "raised" ELSE "check"
    /\ UNCHANGED <<available_commands, router, task_queue, cancelled, execpc, ppc, msg,
                   task, enqueued, accepted, dispatched, calls, arg, ret, late>>

\* main(): gather() re-raises the first exception of a task, main() does not
\* catch it, and asyncio.run() cancels the task that is still suspended.
ExecAbort ==
    /\ execpc = "running"
    /\ ppc = "raised" \/ hpc = "raised"
    /\ ~PollerRunning /\ ~HandlerRunning
    /\ execpc' = "raised"
    /\ ppc' = IF ppc \in {"connecting", "recv"} THEN "killed" ELSE ppc
    /\ hpc' = IF hpc = "waiting" THEN "killed" ELSE hpc
    /\ UNCHANGED <<available_commands, router, bindings, task_queue, cancelled, msg,
                   task, outbox, enqueued, accepted, dispatched, calls, last, arg, ret,
                   late, causes>>

\* main(): gather() returns when both tasks have returned.
ExecReturn ==
    /\ execpc = "running"
    /\ ppc = "done"
    /\ hpc = "done"
    /\ execpc' = "returned"
    /\ UNCHANGED <<available_commands, router, bindings, task_queue, cancelled, ppc,
                   hpc, msg, task, outbox, enqueued, accepted, dispatched, calls, last,
                   arg, ret, late, causes>>

Next ==
    \/ \E r \in Registrations : command(r[1], r[2])
    \/ exec
    \/ cancel
    \/ PollerConnect
    \/ PollerConnectFail
    \/ PollerCheck
    \/ \E f \in Frames : PollerRecv(f)
    \/ PollerClosed
    \/ PollerFrame
    \/ HandlerCheck
    \/ HandlerDequeue
    \/ HandlerWake
    \/ HandlerQuery
    \/ ExecAbort
    \/ ExecReturn

Spec == Init /\ [][Next]_vars

\* The event loop resumes a task that is ready and runs it to its next
\* suspension point, and main() continues once gather() has its result. Nothing
\* obliges the environment: a frame to arrive, the connection to open or to
\* close, a signal to be sent.
FairSpec ==
    /\ Spec
    /\ WF_vars(PollerCheck \/ PollerFrame)
    /\ WF_vars(HandlerCheck \/ HandlerDequeue \/ HandlerWake \/ HandlerQuery)
    /\ WF_vars(ExecAbort \/ ExecReturn)

(***************************************************************************)
(* Function specifications: one call of a method on inputs drawn from a    *)
(* bounded set, on an instance configured as the script configures it.     *)
(***************************************************************************)
\* The registry after the registrations rs.
Registered(rs) ==
    /\ available_commands = { r[1] : r \in rs }
    /\ router = [n \in { r[1] : r \in rs } |-> (CHOOSE r \in rs : r[1] = n)[2]]

\* The characters of the texts given to parse().
Alphabet == {"\\", " ", "\t", "m", "e"}
Texts == UNION { [1..n -> Alphabet] : n \in 0..MaxTextLen }

InitParse ==
    /\ \E rs \in SUBSET Registrations : Registered(rs)
    /\ Idle
    /\ arg \in Texts
    /\ ret = None

\* self.parse(arg)
CallParse ==
    /\ IsNone(ret)
    /\ ret' = Some(parse(arg, available_commands))
    /\ UNCHANGED <<available_commands, router, pipeline, arg>>

SpecParse == InitParse /\ [][CallParse]_vars

\* The segments of the messages given to translate().
Segments ==
    { TextSeg(<<"a">>), TextSeg(MeText), AtSeg(MentionedUser), AtSeg(OtherUser),
      AtSeg(ALL), ImageSeg }
Messages == UNION { [1..n -> Segments] : n \in 0..MaxSegs }

InitTranslate ==
    /\ Registered(Registrations)
    /\ Idle
    /\ \E u \in {OtherUser, PrivateEnabledId}, m \in Messages :
         arg = Obj(Group, Some(u), Some(GroupEnabledId), Some(m))
    /\ ret = None

\* self.translate(arg)
CallTranslate ==
    /\ IsNone(ret)
    /\ ~translateRaises(arg)
    /\ ret' = Some(translate(arg))
    /\ UNCHANGED <<available_commands, router, pipeline, arg>>

SpecTranslate == InitTranslate /\ [][CallTranslate]_vars

ReplyTexts == {"", "help", "profile", "not bound", "rank info", "lookup failed"}
GroupArgs == {None, Some(0), Some(GroupEnabledId), Some(OtherGroup)}
PrivateArgs == {Some(0), Some(PrivateEnabledId), Some(OtherUser), Some(MentionedUser)}

\* The calls the wrapper of command() makes: a non-empty text, the sender as
\* private, the Command's group, and one of the two truthy.
InitReply ==
    /\ Registered(Registrations)
    /\ Idle
    /\ arg \in [text : ReplyTexts, group : GroupArgs, private : PrivateArgs]
    /\ TruthyStr(Some(arg.text))
    /\ TruthyInt(arg.private) \/ TruthyInt(arg.group)
    /\ ret = None

\* self.reply(arg.text, group=arg.group, private=arg.private)
CallReply ==
    /\ IsNone(ret)
    /\ LET r == reply(arg.text, arg.group, arg.private) IN
         /\ ret' = Some(r)
         /\ outbox' = outbox \o r.posts
    /\ UNCHANGED <<available_commands, router, bindings, task_queue, cancelled, execpc,
                   ppc, hpc, msg, task, enqueued, accepted, dispatched, calls, last,
                   arg, late, causes>>

SpecReply == InitReply /\ [][CallReply]_vars

(***************************************************************************)
(* Properties of the pipeline (specification Spec).                        *)
(***************************************************************************)

\* C1: Commands are dispatched in strict FIFO order: at every moment the
\* Commands passed to query(), in the order they were passed, followed by the
\* Commands still in the queue, are exactly the Commands the Poller enqueued, in
\* enqueue order (nothing reordered, duplicated or skipped).
FifoDispatch == dispatched \o task_queue = enqueued

\* C1 witness: one Command dispatched while two different ones wait behind it.
FifoDispatchWitness ==
    /\ Len(dispatched) = 1
    /\ Len(task_queue) = 2
    /\ task_queue[1] # task_queue[2]
    /\ dispatched[1] # task_queue[1]

\* The Gate of the specification: the scope's identity is in its allow-list.
GateAdmits(f) ==
    /\ f.kind = "object"
    /\ \/ f.message_type = Group /\ \E g \in group_enabled : f.group_id = Some(g)
       \/ f.message_type = Private /\ \E u \in private_enabled : f.user_id = Some(u)

\* The Translator does not reject: every segment is text or mention.
TranslatorAdmits(f) ==
    /\ Len(f.message) = 1
    /\ \A i \in 1..Len(Val(f.message)) : Val(f.message)[i].type \in {"text", "at"}

\* The token at position k of text is the prefix followed by name.
PrefixedAt(text, k, name) ==
    /\ k + Len(name) <= Len(text)
    /\ text[k] = "\\"
    /\ SubSeq(text, k + 1, k + Len(name)) = name
    /\ k + Len(name) < Len(text) => text[k + Len(name) + 1] = " "

\* The Parser accepts: the first token of the frame's text is the prefix
\* followed by the registered name c.command[0].
ParserAdmits(f, c) ==
    /\ Len(c.command) > 0
    /\ c.command[1] \in available_commands
    /\ LET text == JoinSegments(Val(f.message)) IN
       \E k \in 1..Len(text) :
           /\ \A j \in 1..(k - 1) : text[j] \in Whitespace
           /\ PrefixedAt(text, k, c.command[1])

\* C2: every Command in the task queue was built from a frame that the Gate
\* enabled, the Translator did not reject and the Parser accepted, and its token
\* sequence is not empty; so no frame with an unsupported segment type, a
\* non-prefixed text or an unregistered command name has caused an enqueue.
QueuedWereAdmitted ==
    /\ Len(accepted) = Len(enqueued)
    /\ \A j \in 1..Len(enqueued) :
           /\ GateAdmits(accepted[j])
           /\ TranslatorAdmits(accepted[j])
           /\ ParserAdmits(accepted[j], enqueued[j])
    /\ \A i \in 1..Len(task_queue) :
           /\ Len(task_queue[i].command) > 0
           /\ \E j \in 1..Len(enqueued) : enqueued[j] = task_queue[i]

\* C2 witness: a queued Command built from a frame whose text starts with a
\* mention, after frames of every rejected kind could have arrived.
QueuedWereAdmittedWitness ==
    /\ Len(task_queue) = 2
    /\ task_queue[2].targets # {}
    /\ task_queue[1].group = Some(GroupEnabledId)

\* C3: the Router lookup of a dispatch always succeeds: the registered names
\* are the keys of the router, and every Command that is queued or was
\* dequeued names a key of the router.
RouterLookupSucceeds ==
    /\ available_commands = DOMAIN router
    /\ \A i \in 1..Len(task_queue) : task_queue[i].command[1] \in DOMAIN router
    /\ \A i \in 1..Len(dispatched) : dispatched[i].command[1] \in DOMAIN router

\* C3 witness: a Command dispatched under a partial registry.
RouterLookupSucceedsWitness ==
    /\ Len(dispatched) >= 1
    /\ Help \notin DOMAIN router
    /\ Me \in DOMAIN router

\* C4: for a decoded frame the Gate enables exactly the group-scoped frames
\* whose group_id is in group_enabled and the private-scoped frames whose
\* user_id is in private_enabled (any other or missing message_type is
\* disabled), and on a disabled frame the Poller goes back to Listening without
\* calling translate() or parse().
GateDecision ==
    (ppc \in {"check", "raised"} /\ ~IsNone(msg) /\ Val(msg).kind = "object") =>
        /\ GateAdmits(Val(msg)) <=> (Len(calls) > 0 /\ calls[1] = "translate")
        /\ ~GateAdmits(Val(msg)) => (ppc = "check" /\ calls = <<>>)

\* C8: a dispatch through a wrapped handler that returns no reply or an empty
\* reply issues no request; one that returns non-empty text for a Command with
\* a group id issues exactly one /send_group_msg request, to that group id, with
\* the text prefixed by a mention of the Command's sender.
WrappedReplyDelivery ==
    (~IsNone(last) /\ ~Val(last).raised) =>
        LET d == Val(last) IN
        /\ ~TruthyStr(d.reply) => d.posts = <<>>
        /\ (TruthyStr(d.reply) /\ ~IsNone(d.cmd.group)) =>
               d.posts = << [api |-> "/send_group_msg", id |-> Val(d.cmd.group),
                             message |-> [at |-> Some(d.cmd.sender),
                                          text |-> Val(d.reply)]] >>

\* C10: the consumer loop ends only when the cancellation flag is set and the
\* queue is empty at the cancellation check: it never exits while Commands are
\* still in the queue.
ConsumerExitsDrained ==
    [][(hpc # "done" /\ hpc' = "done") => (cancelled /\ task_queue = <<>>)]_vars

(***************************************************************************)
(* Properties of translate() (specification SpecTranslate).                *)
(***************************************************************************)
\* The number of characters segment e contributes to the command text.
SegWidth(e) == IF e.type = "text" THEN Len(e.text) ELSE 1

RECURSIVE SegOffset(_, _)
\* The number of characters contributed by the segments before segment k.
SegOffset(m, k) == IF k = 1 THEN 0 ELSE SegOffset(m, k - 1) + SegWidth(m[k - 1])

\* C5: for a message whose segments are all text or mention, translate()
\* returns a RawCommand whose sender is the envelope's user_id, whose text holds,
\* segment after segment, the literal text of a text segment and one space for a
\* mention, and whose targets are exactly the mentioned identities other than
\* the broadcast marker.
TranslateResult ==
    (~IsNone(ret) /\ TranslatorAdmits(arg)) =>
        LET m == Val(arg.message) IN
        /\ ~IsNone(Val(ret))
        /\ LET raw == Val(Val(ret)) IN
           /\ raw.sender = Val(arg.user_id)
           /\ Len(raw.command) = SegOffset(m, Len(m) + 1)
           /\ \A k \in 1..Len(m) :
                  SubSeq(raw.command, SegOffset(m, k) + 1, SegOffset(m, k + 1))
                      = IF m[k].type = "text" THEN m[k].text ELSE <<" ">>
           /\ ALL \notin raw.targets
           /\ \A q \in {MentionedUser, OtherUser} :
                  q \in raw.targets <=> \E k \in 1..Len(m) : m[k] = AtSeg(q)
           /\ raw.targets \subseteq {MentionedUser, OtherUser}

\* C5 witness: a broadcast mention, a mention and a text have been translated.
TranslateResultWitness ==
    /\ ~IsNone(ret)
    /\ Val(arg.message) = <<AtSeg(ALL), AtSeg(MentionedUser), TextSeg(MeText)>>
    /\ Val(Val(ret)).targets = {MentionedUser}

(***************************************************************************)
(* Properties of parse() (specification SpecParse).                        *)
(***************************************************************************)
\* C6: every text that does not start with the prefix character is rejected,
\* also one that begins with spaces before a prefixed token.
NonPrefixedRejected ==
    (~IsNone(ret) /\ ~(Len(arg) > 0 /\ arg[1] = "\\")) => IsNone(Val(ret))

\* The first character of text that is not whitespace is the prefix.
FirstVisibleIsPrefix(text) ==
    \E k \in 1..Len(text) :
        /\ text[k] = "\\"
        /\ \A j \in 1..(k - 1) : text[j] \in Whitespace

\* C6 as amended: every text whose first non-whitespace character is not the
\* prefix (or that has none) is rejected; a text made of spaces followed by the
\* prefix and a registered name is accepted as that command.
FirstTokenNonPrefixedRejected ==
    ~IsNone(ret) =>
        /\ ~FirstVisibleIsPrefix(arg) => IsNone(Val(ret))
        /\ \A n \in 1..Len(arg) :
               ( /\ \A j \in 1..n : arg[j] = " "
                 /\ n < Len(arg)
                 /\ arg[n + 1] = "\\"
                 /\ SubSeq(arg, n + 2, Len(arg)) \in available_commands )
               => Val(ret) = Some(<<SubSeq(arg, n + 2, Len(arg))>>)

\* C6 witness: a text beginning with a space whose first token has no prefix
\* was rejected although its name is registered.
FirstTokenNonPrefixedRejectedWitness ==
    /\ ~IsNone(ret)
    /\ arg = <<" ", "m", "e">>
    /\ Me \in available_commands
    /\ IsNone(Val(ret))

\* C7: the token sequence of an accepted text is that of splitting on single
\* spaces, trimming every token and dropping the tokens that are empty after
\* trimming, with one prefix cut from token 0; no argument is an empty token.
TokensTrimmedThenDropped ==
    (~IsNone(ret) /\ ~IsNone(Val(ret))) =>
        LET argv == Val(Val(ret))
            tokens == NonEmpty(MapStrip(SplitSpace(arg)))
        IN /\ \A i \in 2..Len(argv) : argv[i] # <<>>
           /\ Len(tokens) = Len(argv)
           /\ tokens[1] = <<"\\">> \o argv[1]
           /\ \A i \in 2..Len(argv) : argv[i] = tokens[i]

(***************************************************************************)
(* Properties of reply() (specification SpecReply).                        *)
(***************************************************************************)
\* C9: a call of reply() with at least one destination present posts exactly
\* one request: to /send_group_msg with the group id when a group identity is
\* present, otherwise to /send_private_msg with the user id and the unmodified
\* text; for all identity values, 0 included.
ReplyPostsExactlyOne ==
    (~IsNone(ret) /\ (~IsNone(arg.group) \/ ~IsNone(arg.private))) =>
        /\ ~Val(ret).raised
        /\ Len(outbox) = 1
        /\ IF ~IsNone(arg.group)
           THEN outbox[1].api = "/send_group_msg" /\ outbox[1].id = Val(arg.group)
           ELSE /\ outbox[1].api = "/send_private_msg"
                /\ outbox[1].id = Val(arg.private)
                /\ outbox[1].message.text = arg.text

(***************************************************************************)
(* Shutdown and failure of the pipeline (specifications Spec and FairSpec). *)
(***************************************************************************)
\* C11: when the flag is set while message_handler is suspended in dequeue()
\* on an empty queue, message_handler eventually leaves its loop, whether or
\* not another frame arrives.
IdleConsumerExits ==
    (cancelled /\ hpc = "waiting" /\ task_queue = <<>>) ~> (hpc = "done")

\* C12 witness: the flag was set while message_poller was suspended in recv();
\* the one frame received afterwards was enqueued, and message_poller returned.
LateFrameBoundWitness ==
    /\ late.recv = 1
    /\ late.enq = 1
    /\ ppc = "done"
    /\ Poll(accepted[Len(accepted)], available_commands).calls
           = <<"translate", "parse", "enqueue">>

\* C12: after the flag is set message_poller receives at most one frame and
\* enqueues at most one Command; a frame it holds while the flag is set is
\* processed by the whole iteration body before the flag is looked at, and
\* message_poller returns only with the flag set.
LateFrameBound ==
    /\ [](/\ late.recv <= 1
          /\ late.enq <= 1
          /\ ppc = "done" => cancelled)
    /\ [][(cancelled /\ ppc = "frame" /\ ppc' # "frame") =>
            /\ ppc' \in {"check", "raised"}
            /\ calls' = Poll(Val(msg), available_commands).calls
            /\ Len(task_queue') - Len(task_queue)
                 = Len(Poll(Val(msg), available_commands).cmd)]_vars

\* C13: message_poller ends with an exception only when the connection fails
\* or is closed, never while it holds a received frame: every frame is either
\* enqueued as one Command or discarded.
PollerSurvivesEveryFrame == ppc = "raised" => IsNone(msg)

\* C14: after the flag is set there is no state in which message_poller has
\* returned while message_handler is suspended in dequeue() on an empty queue.
ShutdownCompletes ==
    ~(cancelled /\ ppc = "done" /\ hpc = "waiting" /\ task_queue = <<>>)

\* C15: every dispatch returns normally, with no reply or a reply string,
\* whatever the handler, the arguments and the bindings.
DispatchReturnsNormally == ~IsNone(last) => ~Val(last).raised

\* C16: every request posted to /send_group_msg names a group of
\* group_enabled.
GroupDeliveryAllowListed ==
    \A i \in 1..Len(outbox) :
        outbox[i].api = "/send_group_msg" => outbox[i].id \in group_enabled

\* C17 witness: a dispatch is in progress while message_poller is suspended in
\* recv(), and two earlier dispatches of different Commands have posted.
SerialDispatchWitness ==
    /\ hpc = "query"
    /\ ppc = "recv"
    /\ Len(causes) >= 2
    /\ causes[1] < causes[2]
    /\ dispatched[causes[1]] # dispatched[causes[2]]

\* C17: every request is posted by the dispatch of the Command dequeued last
\* and is addressed to that Command's group or sender, so requests follow the
\* order in which their Commands were enqueued; a dispatch in progress has not
\* posted yet, and until it ends no frame is received, no Command is enqueued
\* and no other Command is dequeued.
SerialDispatch ==
    /\ [](/\ Len(causes) = Len(outbox)
          /\ \A i \in 1..Len(causes) :
                /\ causes[i] \in 1..Len(dispatched)
                /\ hpc = "query" => causes[i] < Len(dispatched)
                /\ \A j \in 1..i : causes[j] <= causes[i]
                /\ dispatched[causes[i]] = enqueued[causes[i]]
                /\ IF outbox[i].api = "/send_group_msg"
                   THEN dispatched[causes[i]].group = Some(outbox[i].id)
                   ELSE dispatched[causes[i]].sender = outbox[i].id)
    /\ [][hpc = "query" =>
            /\ msg' = msg
            /\ ppc' = ppc
            /\ enqueued' = enqueued
            /\ task_queue' = task_queue
            /\ dispatched' = dispatched
            /\ hpc' \in {"check", "raised"} \/ outbox' = outbox]_vars

\* C18 witness: the flag was set while message_handler was suspended in
\* dequeue(); it dispatched one Command afterwards and returned, leaving a
\* Command in the queue.
AtMostOneLateDispatchWitness ==
    /\ late.at = "waiting"
    /\ late.disp = 1
    /\ hpc = "done"
    /\ task_queue # <<>>

\* C18: after the flag is set message_handler begins at most one dispatch, and
\* none when the flag was set during a dispatch or before the check that
\* follows it; once message_handler has ended no Command leaves the queue.
AtMostOneLateDispatch ==
    /\ [](/\ late.disp <= 1
          /\ late.at \in {"query", "check"} => late.disp = 0)
    /\ [][(hpc \in {"done", "raised", "killed"}) =>
            (dispatched' = dispatched /\ Len(task_queue') >= Len(task_queue))]_vars

====
